---- MODULE Spec2Model ----
(***************************************************************************)
(* Verification model of the Mandelbrot viewer: the MandelbrotCanvas       *)
(* component (zoom animation, debounced rendering, pan, wheel zoom, the    *)
(* render worker and the colour application of its results) and the App    *)
(* state it is wired to.                                                   *)
(*                                                                         *)
(* Numbers.  The program computes in float64.  The model computes with     *)
(* exact rationals <<n, d>> (d > 0, lowest terms), so every equality the   *)
(* model reports is an equality of the mathematical values the code's      *)
(* expressions denote; rounding error is not modelled.                     *)
(*                                                                         *)
(* React.  State setters (setCoordinates, setZoomLevel, setIsDragging,     *)
(* setLastMousePos) write the latest state; handlers and callbacks read    *)
(* the values captured by the closure of the render that created them.     *)
(* Render commits the latest state into a new closure and runs the passive *)
(* effects whose dependencies changed in that commit (one step: React      *)
(* flushes a commit's effects before it handles any further update).       *)
(***************************************************************************)
EXTENDS Integers, Naturals, Sequences, FiniteSets, TLC

\* ------------------------------------------------------------------------
\* Exact rational arithmetic (the model of the code's number arithmetic)
\* ------------------------------------------------------------------------

IAbs(n) == IF n < 0 THEN -n ELSE n

RECURSIVE Gcd(_, _)
Gcd(a, b) == IF b = 0 THEN a ELSE Gcd(b, a % b)

\* The rational n/d in lowest terms with a positive denominator.
R(n, d) ==
    LET g == Gcd(IAbs(n), IAbs(d))
        s == IF d < 0 THEN -1 ELSE 1
    IN  <<(s * n) \div g, (s * d) \div g>>

RInt(n) == <<n, 1>>

RAdd(a, b) ==
    LET g == Gcd(a[2], b[2])
    IN  R(a[1] * (b[2] \div g) + b[1] * (a[2] \div g), (a[2] \div g) * b[2])

RNeg(a) == <<-a[1], a[2]>>

RSub(a, b) == RAdd(a, RNeg(b))

RMul(a, b) ==
    LET g1 == Gcd(IAbs(a[1]), b[2])
        g2 == Gcd(IAbs(b[1]), a[2])
    IN  R((a[1] \div g1) * (b[1] \div g2), (a[2] \div g2) * (b[2] \div g1))

RDiv(a, b) == RMul(a, R(b[2], b[1]))

RAbs(a) == <<IAbs(a[1]), a[2]>>

RLt(a, b) == RSub(a, b)[1] < 0

RLe(a, b) == RSub(a, b)[1] <= 0

\* ------------------------------------------------------------------------
\* Program constants
\* ------------------------------------------------------------------------

CanvasWidth == 800

CanvasHeight == 600

\* ASPECT_RATIO = 4/3
ASPECT_RATIO == R(4, 3)

\* DEFAULT_VIEW = { x: -0.75, y: 0, zoom: 1.29 }; id 0 is the identity of
\* the DEFAULT_VIEW object itself (React compares state by Object.is).
DEFAULT_VIEW == [x |-> R(-3, 4), y |-> RInt(0), id |-> 0]

DEFAULT_ZOOM == R(129, 100)

\* App: const quality = 1
quality == 1

\* App: useState(100) for maxIterations
maxIterations == 100

\* App: useState(0.2) for zoomStepSize, useState(0.5) for zoomAnimationSpeed
zoomStepSize == R(1, 5)

zoomAnimationSpeed == R(1, 2)

NULL == 0

\* A requestAnimationFrame handle (always truthy)
HANDLE == 1

NoClosure == [none |-> TRUE]

\* ------------------------------------------------------------------------
\* Bounds of the model
\* ------------------------------------------------------------------------

\* Input events (wheel events, drag moves, resets) and easing (not yet
\* converged) ticks taken in one behaviour.
MaxInput == 2

MaxTick == 2

\* Requests posted to the worker and not yet answered: a behaviour in which
\* the worker falls further behind than this is not explored.
MaxQueue == 2

\* Pointer positions (canvas pixels, rect.left = rect.top = 0) of the mouse
\* events, and of the wheel events.
MousePositions == {<<400, 300>>, <<600, 150>>}

WheelPositions == {<<600, 150>>}

\* Sign of WheelEvent.deltaY
WheelDeltas == {-1, 1}

VARIABLES
    \* --- the interactive session
    coordinates,       \* App state: coordinates (latest value)
    zoomLevel,         \* App state: zoomLevel (latest value)
    isDragging,        \* canvas state (latest value)
    lastMousePos,      \* canvas state (latest value)
    closure,           \* state captured by the last committed render
    targetZoomRef,
    currentZoomRef,
    animationFrameRef,
    rafQueue,          \* animation-frame callbacks scheduled (their closures)
    timeoutCb,         \* pending debounce timeout (its closure) or NoClosure
    workerQueue,       \* requests posted to the worker and not yet answered
    onmessage,         \* workerRef.current.onmessage (its closure)
    display,           \* last result put on the canvas, or NoClosure
    lastInput,         \* history: the last input event
    nInput, nTick,     \* history: input events and easing ticks so far
    \* --- one render: the worker's onmessage and the result handler
    job,               \* e.data of the message the worker is processing
    px, py,            \* the worker's loop variables
    data,              \* the worker's Uint8ClampedArray
    sample,            \* history: the last sample the worker computed
    computed,          \* history: pixel -> iteration count computed for it
    painted,           \* pixel -> what the result handler did for it
    pc,                \* "idle", "loop", "posted" or "painted"
    \* --- one call of a colour scheme's getColor
    colour             \* its arguments and, once it returned, its result

vars == <<coordinates, zoomLevel, isDragging, lastMousePos, closure,
          targetZoomRef, currentZoomRef, animationFrameRef, rafQueue,
          timeoutCb, workerQueue, onmessage, display, lastInput, nInput,
          nTick, job, px, py, data, sample, computed, painted, pc, colour>>

appVars == <<coordinates, zoomLevel>>

dragVars == <<isDragging, lastMousePos>>

zoomRefs == <<targetZoomRef, currentZoomRef>>

rafVars == <<animationFrameRef, rafQueue>>

workerVars == <<workerQueue, onmessage>>

counters == <<nInput, nTick>>

workerLocals == <<job, px, py, data, sample, computed, painted, pc>>

renderVars == <<workerLocals, colour>>

sessionVars == <<appVars, dragVars, closure, zoomRefs, rafVars, timeoutCb,
                 workerVars, display, lastInput, counters>>

\* ------------------------------------------------------------------------
\* Closures
\* ------------------------------------------------------------------------

\* The values a render captures for the handlers and callbacks it creates.
LatestState ==
    [coordinates |-> coordinates, zoomLevel |-> zoomLevel,
     isDragging |-> isDragging, lastMousePos |-> lastMousePos]

\* What drawMandelbrot / animateZoom of a render capture (their useCallback
\* dependencies): coordinates and zoomLevel.
View(c) == [coordinates |-> c.coordinates, zoomLevel |-> c.zoomLevel]

\* ------------------------------------------------------------------------
\* calculateViewBounds, drawMandelbrot
\* ------------------------------------------------------------------------

ViewBounds(centre, zoom) ==
    LET unitSize == RDiv(RInt(2), zoom)
        width    == RMul(unitSize, RInt(2))
        height   == RDiv(width, ASPECT_RATIO)
    IN  [xMin |-> RSub(centre.x, RDiv(width, RInt(2))),
         xMax |-> RAdd(centre.x, RDiv(width, RInt(2))),
         yMin |-> RSub(centre.y, RDiv(height, RInt(2))),
         yMax |-> RAdd(centre.y, RDiv(height, RInt(2)))]

\* calculateViewBounds of the render whose view is c
calculateViewBounds(c) == ViewBounds(c.coordinates, c.zoomLevel)

\* App.tsx, "Calculate current view bounds": the bounds App derives from
\* its coordinates and zoomLevel and hands to the control panel
AppViewBounds(centre, zoom) ==
    [xMin |-> RSub(centre.x, RDiv(RInt(2), zoom)),
     xMax |-> RAdd(centre.x, RDiv(RInt(2), zoom)),
     yMin |-> RSub(centre.y, RDiv(RInt(2), zoom)),
     yMax |-> RAdd(centre.y, RDiv(RInt(2), zoom))]

\* The viewBounds prop of the control panel in the last committed render
viewBounds == AppViewBounds(closure.coordinates, closure.zoomLevel)

\* A variant of the stride rule that also halves the resolution at rest
RequestQualityAtRestHalved(cur, tgt) ==
    quality * (IF RLe(RInt(0), RAbs(RSub(cur, tgt))) THEN 2 ELSE 1)

\* quality * (Math.abs(current - target) > 0.01 ? 2 : 1)
RequestQuality(cur, tgt) ==
    quality * (IF RLt(R(1, 100), RAbs(RSub(cur, tgt))) THEN 2 ELSE 1)

\* The message drawMandelbrot of view c posts, cur and tgt being the zoom
\* refs at the call.
RenderRequest(c, cur, tgt) ==
    [width |-> CanvasWidth, height |-> CanvasHeight,
     maxIterations |-> maxIterations,
     bounds |-> calculateViewBounds(c),
     quality |-> RequestQuality(cur, tgt)]

\* drawMandelbrot(): replace the worker's onmessage by this render's handler
\* and post the request.
drawMandelbrot(c, cur, tgt) ==
    /\ Len(workerQueue) < MaxQueue
    /\ onmessage' = c
    /\ workerQueue' = Append(workerQueue, RenderRequest(c, cur, tgt))

\* ------------------------------------------------------------------------
\* Initial state of a session: the component is mounted with a view, the
\* first render is committed and its effects have run (zoom refs set,
\* debounce timeout armed).  No render is being computed.
\* ------------------------------------------------------------------------

WorkerIdle ==
    /\ job = NoClosure
    /\ px = 0 /\ py = 0
    /\ data = <<>>
    /\ sample = NoClosure
    /\ computed = <<>>
    /\ painted = <<>>
    /\ pc = "idle"

RenderIdle == WorkerIdle /\ colour = NoClosure

InitSession(centre, zoom) ==
    /\ coordinates = centre
    /\ zoomLevel = zoom
    /\ isDragging = FALSE
    /\ lastMousePos = <<0, 0>>
    /\ closure = [coordinates |-> centre, zoomLevel |-> zoom,
                  isDragging |-> FALSE, lastMousePos |-> <<0, 0>>]
    /\ targetZoomRef = zoom
    /\ currentZoomRef = zoom
    /\ animationFrameRef = NULL
    /\ rafQueue = <<>>
    /\ timeoutCb = [coordinates |-> centre, zoomLevel |-> zoom]
    /\ workerQueue = <<>>
    /\ onmessage = NoClosure
    /\ display = NoClosure
    /\ lastInput = [type |-> "none"]
    /\ nInput = 0 /\ nTick = 0

Init == InitSession(DEFAULT_VIEW, DEFAULT_ZOOM) /\ RenderIdle

\* ------------------------------------------------------------------------
\* React: render and passive effects
\* ------------------------------------------------------------------------

RenderNeeded == LatestState # closure

\* useEffect(() => { targetZoomRef.current = zoomLevel;
\*                   currentZoomRef.current = zoomLevel }, [zoomLevel])
\* run for the commit that replaces closure old by closure new.
SyncEffect(old, new) ==
    IF new.zoomLevel # old.zoomLevel
    THEN /\ targetZoomRef' = new.zoomLevel
         /\ currentZoomRef' = new.zoomLevel
    ELSE UNCHANGED zoomRefs

\* useEffect(..., [drawMandelbrot]): drawMandelbrot changes with the
\* coordinates object or zoomLevel; the previous effect's cleanup clears its
\* timeout, then a new 100 ms timeout calling the new drawMandelbrot is
\* armed.
DebounceEffect(old, new) ==
    IF View(new) # View(old)
    THEN timeoutCb' = View(new)
    ELSE UNCHANGED timeoutCb

\* A re-render of App and MandelbrotCanvas and the passive effects of its
\* commit: the latest state is captured by the new closures, and the
\* effects whose dependencies changed run, in the order they are declared.
Render ==
    /\ RenderNeeded
    /\ closure' = LatestState
    /\ SyncEffect(closure, LatestState)
    /\ DebounceEffect(closure, LatestState)
    /\ UNCHANGED <<appVars, dragVars, rafVars, workerVars, display,
                   lastInput, counters, renderVars>>

\* The debounce timeout expires: drawMandelbrot of the render that armed it.
TimerFires ==
    /\ timeoutCb # NoClosure
    /\ drawMandelbrot(timeoutCb, currentZoomRef, targetZoomRef)
    /\ timeoutCb' = NoClosure
    /\ UNCHANGED <<appVars, dragVars, closure, zoomRefs, rafVars, display,
                   lastInput, counters, renderVars>>

\* ------------------------------------------------------------------------
\* animateZoom
\* ------------------------------------------------------------------------

\* Math.abs(diff) < 0.001
Converged(cur, tgt) == RLt(RAbs(RSub(tgt, cur)), R(1, 1000))

\* A variant of the easing step that adds the whole difference on top
EaseStepBeyond(cur, tgt, speed) ==
    RAdd(cur, RMul(RSub(tgt, cur), RAdd(RInt(1), speed)))

\* currentZoomRef.current += diff * zoomAnimationSpeed
EaseStepFor(cur, tgt, speed) == RAdd(cur, RMul(RSub(tgt, cur), speed))

\* The step under the session's zoomAnimationSpeed
EaseStep(cur, tgt) == EaseStepFor(cur, tgt, zoomAnimationSpeed)

\* One animation frame: the scheduled animateZoom (of the render whose
\* view is Head(rafQueue)) runs.
Tick ==
    /\ rafQueue # <<>>
    /\ LET c == Head(rafQueue)
       IN  IF Converged(currentZoomRef, targetZoomRef)
           THEN /\ currentZoomRef' = targetZoomRef
                /\ zoomLevel' = targetZoomRef
                /\ animationFrameRef' = NULL
                /\ drawMandelbrot(c, targetZoomRef, targetZoomRef)
                /\ rafQueue' = Tail(rafQueue)
                /\ UNCHANGED nTick
           ELSE /\ nTick < MaxTick
                /\ nTick' = nTick + 1
                /\ currentZoomRef' = EaseStep(currentZoomRef, targetZoomRef)
                /\ zoomLevel' = currentZoomRef'
                /\ drawMandelbrot(c, currentZoomRef', targetZoomRef)
                /\ animationFrameRef' = HANDLE
                /\ rafQueue' = Append(Tail(rafQueue), c)
    /\ UNCHANGED <<coordinates, dragVars, closure, targetZoomRef, timeoutCb,
                   display, lastInput, nInput, renderVars>>

\* ------------------------------------------------------------------------
\* Input handlers
\* ------------------------------------------------------------------------

\* A variant of the zoom factor that takes the step twice when zooming out
ZoomFactorDoubleStep(deltaY, step) ==
    IF deltaY > 0 THEN RSub(RInt(1), RMul(RInt(2), step))
                  ELSE RAdd(RInt(1), step)

\* e.deltaY > 0 ? (1 - zoomStepSize) : (1 + zoomStepSize)
ZoomFactorFor(deltaY, step) ==
    IF deltaY > 0 THEN RSub(RInt(1), step)
                  ELSE RAdd(RInt(1), step)

\* The factor under the session's zoomStepSize
ZoomFactor(deltaY) == ZoomFactorFor(deltaY, zoomStepSize)

\* The plane point handleWheel takes to be under the cursor m
WheelPoint(centre, cur, m) ==
    [x |-> RAdd(centre.x,
                RMul(RSub(R(m[1], CanvasWidth), R(1, 2)), RDiv(RInt(4), cur))),
     y |-> RAdd(centre.y,
                RMul(RSub(R(m[2], CanvasHeight), R(1, 2)), RDiv(RInt(4), cur)))]

\* The centre handleWheel sets: newX = x - (x - coordinates.x) * (cur / tgt)
WheelCentre(centre, cur, tgt, m) ==
    LET p == WheelPoint(centre, cur, m)
    IN  [x |-> RSub(p.x, RMul(RSub(p.x, centre.x), RDiv(cur, tgt))),
         y |-> RSub(p.y, RMul(RSub(p.y, centre.y), RDiv(cur, tgt)))]

\* A variant of the wheel handler's test that ignores the handle
FrameAlwaysRequested(handle) == TRUE

\* !animationFrameRef.current
NoFramePending(handle) == handle = NULL

\* handleWheel for a wheel event at pointer position m
handleWheel(m, deltaY) ==
    /\ nInput < MaxInput
    /\ nInput' = nInput + 1
    /\ targetZoomRef' = RMul(currentZoomRef, ZoomFactor(deltaY))
    /\ LET n == WheelCentre(closure.coordinates, currentZoomRef,
                            targetZoomRef', m)
       IN  coordinates' = [x |-> n.x, y |-> n.y, id |-> nInput + 1]
    /\ IF NoFramePending(animationFrameRef)
       THEN /\ animationFrameRef' = HANDLE
            /\ rafQueue' = Append(rafQueue, View(closure))
       ELSE UNCHANGED rafVars
    /\ lastInput' = [type |-> "wheel", target |-> targetZoomRef',
                     animating |-> animationFrameRef # NULL]
    /\ UNCHANGED <<zoomLevel, dragVars, closure, currentZoomRef, timeoutCb,
                   workerVars, display, nTick, renderVars>>

Wheel == \E m \in WheelPositions, d \in WheelDeltas : handleWheel(m, d)

\* handleMouseDown.  A press arrives while the button is up: ~isDragging
\* is the state of the pointer, the handler itself tests nothing.
handleMouseDown(m) ==
    /\ ~isDragging
    /\ nInput < MaxInput
    /\ isDragging' = TRUE
    /\ lastMousePos' = m
    /\ lastInput' = [type |-> "down"]
    /\ UNCHANGED <<appVars, closure, zoomRefs, rafVars, timeoutCb,
                   workerVars, display, counters, renderVars>>

MouseDown == \E m \in MousePositions : handleMouseDown(m)

\* The centre a drag move to pointer position m asks for:
\* coordinates.x - dx, coordinates.y - dy
DragCentre(c, m) ==
    LET b  == calculateViewBounds(c)
        dx == RMul(R(m[1] - c.lastMousePos[1], CanvasWidth),
                   RSub(b.xMax, b.xMin))
        dy == RMul(R(m[2] - c.lastMousePos[2], CanvasHeight),
                   RSub(b.yMax, b.yMin))
    IN  [x |-> RSub(c.coordinates.x, dx), y |-> RSub(c.coordinates.y, dy)]

\* A variant of the domain test that looks at the real axis only
InDomainRealAxis(p) == RLe(RInt(-10), p.x) /\ RLe(p.x, RInt(10))

\* newX >= -10 && newX <= 10 && newY >= -10 && newY <= 10
InDomain(p) ==
    /\ RLe(RInt(-10), p.x) /\ RLe(p.x, RInt(10))
    /\ RLe(RInt(-10), p.y) /\ RLe(p.y, RInt(10))

\* handleMouseMove while the closure's isDragging is set.  (The cursor
\* read-out the handler also reports is CursorPoint.)  accepted is a
\* history field: whether the move passed the domain test.
handleMouseMove(m) ==
    /\ closure.isDragging
    /\ nInput < MaxInput
    /\ nInput' = nInput + 1
    /\ LET n == DragCentre(closure, m)
       IN  /\ IF InDomain(n)
              THEN coordinates' = [x |-> n.x, y |-> n.y, id |-> nInput + 1]
              ELSE UNCHANGED coordinates
           /\ lastInput' = [type |-> "drag", accepted |-> InDomain(n)]
    /\ lastMousePos' = m
    /\ UNCHANGED <<zoomLevel, isDragging, closure, zoomRefs, rafVars,
                   timeoutCb, workerVars, display, nTick, renderVars>>

MouseMove == \E m \in MousePositions : handleMouseMove(m)

\* handleMouseUp (handleMouseLeave ends the drag the same way)
handleMouseUp ==
    /\ isDragging
    /\ isDragging' = FALSE
    /\ UNCHANGED <<appVars, lastMousePos, closure, zoomRefs, rafVars,
                   timeoutCb, workerVars, display, lastInput, counters,
                   renderVars>>

\* App.handleReset: setCoordinates(DEFAULT_VIEW); setZoomLevel(1.29)
handleReset ==
    /\ nInput < MaxInput
    /\ nInput' = nInput + 1
    /\ coordinates' = DEFAULT_VIEW
    /\ zoomLevel' = DEFAULT_ZOOM
    /\ lastInput' = [type |-> "reset"]
    /\ UNCHANGED <<dragVars, closure, zoomRefs, rafVars, timeoutCb,
                   workerVars, display, nTick, renderVars>>

\* ------------------------------------------------------------------------
\* The worker answers its oldest request and the main thread's current
\* onmessage handler puts the result on the canvas.  (What the worker
\* computes for a request, and what the handler does with it, is modelled
\* pixel by pixel further down.)
\* ------------------------------------------------------------------------

WorkerReply ==
    /\ workerQueue # <<>>
    /\ display' = [req |-> Head(workerQueue), handler |-> onmessage]
    /\ workerQueue' = Tail(workerQueue)
    /\ UNCHANGED <<appVars, dragVars, closure, zoomRefs, rafVars, timeoutCb,
                   onmessage, lastInput, counters, renderVars>>

\* A zoom session: wheel zooms and resets, from the default view.
Next ==
    \/ Render
    \/ TimerFires
    \/ Tick
    \/ Wheel
    \/ handleReset
    \/ WorkerReply

Spec == Init /\ [][Next]_vars

\* A session in which the wheel is used while a drag is under way: the
\* handlers of Spec and of the pan session, from the default view.
NextDragZoom ==
    \/ Render
    \/ TimerFires
    \/ Tick
    \/ Wheel
    \/ MouseDown
    \/ MouseMove
    \/ handleMouseUp
    \/ WorkerReply

SpecDragZoom == Init /\ [][NextDragZoom]_vars

\* The centre after one accepted drag of the default zoom's view from
\* pointer position from to pointer position to (mouse down at from, mouse
\* move to to, mouse up).
Dragged(centre, from, to) ==
    LET n == DragCentre([coordinates |-> centre, zoomLevel |-> DEFAULT_ZOOM,
                         isDragging |-> TRUE, lastMousePos |-> from], to)
    IN  [x |-> n.x, y |-> n.y, id |-> 0]

\* The view reached from the default view by dragging the picture to the
\* left four times, 2760 pixels in all: centre (1711/172, 0), about
\* (9.948, 0).  Every one of the four moves passes the domain test.
EdgeView ==
    LET a == Dragged(DEFAULT_VIEW, <<800, 300>>, <<0, 300>>)
        b == Dragged(a, <<800, 300>>, <<0, 300>>)
        c == Dragged(b, <<800, 300>>, <<0, 300>>)
    IN  Dragged(c, <<800, 300>>, <<440, 300>>)

\* A session of drags and wheel events that starts at EdgeView
InitEdge == InitSession(EdgeView, DEFAULT_ZOOM) /\ RenderIdle

SpecEdge == InitEdge /\ [][NextDragZoom]_vars

\* A pan session: drags, from a view in PanViews.
PanCentres ==
    {DEFAULT_VIEW,
     [x |-> R(19, 2), y |-> RInt(0), id |-> 0],
     [x |-> R(-3, 4), y |-> R(-19, 2), id |-> 0],
     [x |-> RInt(-10), y |-> RInt(10), id |-> 0]}

PanZooms == {DEFAULT_ZOOM, R(1419, 1000), R(1, 4)}

InitPan ==
    /\ \E centre \in PanCentres, zoom \in PanZooms : InitSession(centre, zoom)
    /\ RenderIdle

NextPan ==
    \/ Render
    \/ TimerFires
    \/ MouseDown
    \/ MouseMove
    \/ handleMouseUp
    \/ WorkerReply

SpecPan == InitPan /\ [][NextPan]_vars

\* ------------------------------------------------------------------------
\* One render, pixel by pixel: the worker's onmessage (the sampling loops,
\* the escape-time loop, the Uint8ClampedArray it fills) and the result
\* handler drawMandelbrot installs on the main thread.
\* ------------------------------------------------------------------------

\* A store into a Uint8ClampedArray element (integers only are stored)
Uint8Clamped(v) == IF v < 0 THEN 0 ELSE IF v > 255 THEN 255 ELSE v

\* x0 = xMin + (px / width) * (xMax - xMin)
\* y0 = yMin + (py / height) * (yMax - yMin)
SamplePoint(sx, sy, j) ==
    [x |-> RAdd(j.bounds.xMin,
                RMul(R(sx, j.width), RSub(j.bounds.xMax, j.bounds.xMin))),
     y |-> RAdd(j.bounds.yMin,
                RMul(R(sy, j.height), RSub(j.bounds.yMax, j.bounds.yMin)))]

\* A variant of the loop guard with a strict radius test
LoopGuardStrict(z, maxIter) ==
    /\ RLt(RAdd(RMul(z.x, z.x), RMul(z.y, z.y)), RInt(4))
    /\ z.iteration < maxIter

\* The loop guard: x * x + y * y <= 4 && iteration < maxIterations
LoopGuard(z, maxIter) ==
    /\ RLe(RAdd(RMul(z.x, z.x), RMul(z.y, z.y)), RInt(4))
    /\ z.iteration < maxIter

\* The loop body: xTemp = x*x - y*y + x0; y = 2*x*y + y0; x = xTemp;
\* iteration++
LoopBody(z, x0, y0) ==
    [x |-> RAdd(RSub(RMul(z.x, z.x), RMul(z.y, z.y)), x0),
     y |-> RAdd(RMul(RInt(2), RMul(z.x, z.y)), y0),
     iteration |-> z.iteration + 1]

\* One pass of  while (guard) { body }  from loop state z: the body when
\* the guard holds, z itself once the loop has exited.
LoopPass(z, x0, y0, maxIter) ==
    IF LoopGuard(z, maxIter) THEN LoopBody(z, x0, y0) ELSE z

\* n passes of the loop. The passes are split in halves, and the loop state
\* after the first half is bound as a value before the second half starts.
RECURSIVE LoopPasses(_, _, _, _, _)
LoopPasses(z, x0, y0, maxIter, n) ==
    IF n = 0 THEN z
    ELSE IF n = 1 THEN LoopPass(z, x0, y0, maxIter)
    ELSE CHOOSE r \in {LoopPasses(h, x0, y0, maxIter, n - (n \div 2)) :
                          h \in {LoopPasses(z, x0, y0, maxIter, n \div 2)}} : TRUE

\* A variant of the escape-time loop that starts the orbit at z = c instead
\* of z = 0: the loop C8 would describe if it returned 0 beyond radius 2.
EscapeTimeFromC(x0, y0, maxIter) ==
    LoopPasses([x |-> x0, y |-> y0, iteration |-> 0],
               x0, y0, maxIter, maxIter).iteration

\* let x = 0; let y = 0; let iteration = 0; the while loop; its iteration.
\* The guard fails after at most maxIterations passes.
EscapeTime(x0, y0, maxIter) ==
    LoopPasses([x |-> RInt(0), y |-> RInt(0), iteration |-> 0],
               x0, y0, maxIter, maxIter).iteration

\* A variant of the block that is one pixel wider and higher than the
\* stride
BlockPixelsOverlapping(sx, sy, j) ==
    {<<sx + i, sy + k>> : i \in 0..j.quality, k \in 0..j.quality}
        \cap ((0..(j.width - 1)) \X (0..(j.height - 1)))

\* The pixels of the block whose top-left sample is (sx, sy):
\* i < quality && px + i < width, j < quality && py + j < height
BlockPixels(sx, sy, j) ==
    {<<sx + i, sy + k>> : i \in 0..(j.quality - 1), k \in 0..(j.quality - 1)}
        \cap ((0..(j.width - 1)) \X (0..(j.height - 1)))

\* The value the worker stores in channel ch of a pixel of the block
ChannelValue(ch, iteration, maxIter) ==
    IF ch = 3 THEN 255
    ELSE IF iteration = maxIter THEN 0
    ELSE IF ch = 0 THEN Uint8Clamped(iteration)
    ELSE IF ch = 1 THEN Uint8Clamped(maxIter)
    ELSE 0

\* data after the block of sample (sx, sy) is filled;
\* index = ((py + j) * width + (px + i)) * 4
FillBlock(d, j, sx, sy, iteration) ==
    [k \in DOMAIN d |->
        LET pixel == k \div 4
            col   == pixel % j.width
            row   == pixel \div j.width
        IN  IF <<col, row>> \in BlockPixels(sx, sy, j)
            THEN ChannelValue(k % 4, iteration, j.maxIterations)
            ELSE d[k]]

\* The messages a render is checked on: 4 x 3 buffers over views whose
\* sample points are integers, so that the escape-time loop is computed
\* exactly for every iteration budget of the slider's range and beyond.
RenderViews ==
    {ViewBounds([x |-> RInt(0), y |-> R(1, 2)], RInt(1)),
     ViewBounds([x |-> RInt(0), y |-> RInt(0)], R(1, 2))}

IterationBudgets == {0, 1, 2, 3, 10, 100, 255, 256, 1000}

RenderJobs ==
    [width : {4}, height : {3}, maxIterations : IterationBudgets,
     bounds : RenderViews, quality : {quality, 2 * quality}]

\* The worker receives a message: new Uint8ClampedArray(width * height * 4)
InitRender ==
    /\ InitSession(DEFAULT_VIEW, DEFAULT_ZOOM)
    /\ job \in RenderJobs
    /\ px = 0 /\ py = 0
    /\ data = [k \in 0..(job.width * job.height * 4 - 1) |-> 0]
    /\ sample = NoClosure
    /\ computed = [p \in 0..(job.width * job.height - 1) |-> -1]
    /\ painted = <<>>
    /\ pc = "loop"
    /\ colour = NoClosure

\* One pass of the body of the inner loop: the sample at (px, py) is
\* evaluated and its block filled; then py += quality, and at the end of a
\* column px += quality.
WorkerSample ==
    /\ pc = "loop"
    /\ px < job.width
    /\ LET c         == SamplePoint(px, py, job)
           iteration == EscapeTime(c.x, c.y, job.maxIterations)
       IN  /\ sample' = [px |-> px, py |-> py, x0 |-> c.x, y0 |-> c.y,
                         iteration |-> iteration]
           /\ data' = FillBlock(data, job, px, py, iteration)
           /\ computed' = [p \in DOMAIN computed |->
                             IF <<p % job.width, p \div job.width>>
                                    \in BlockPixels(px, py, job)
                             THEN iteration ELSE computed[p]]
    /\ IF py + job.quality < job.height
       THEN py' = py + job.quality /\ px' = px
       ELSE py' = 0 /\ px' = px + job.quality
    /\ UNCHANGED <<sessionVars, job, painted, pc, colour>>

\* self.postMessage({ data, width, height })
WorkerPost ==
    /\ pc = "loop"
    /\ px >= job.width
    /\ pc' = "posted"
    /\ UNCHANGED <<sessionVars, job, px, py, data, sample, computed, painted,
                   colour>>

\* What the result handler does for the pixel whose first byte is data[i]:
\* const iteration = data[i]; const maxIter = data[i + 1];
\* if (iteration === maxIter) black; else getColor(iteration, maxIter)
PaintPixel(d, i) ==
    [iteration |-> d[i], maxIter |-> d[i + 1], interior |-> d[i] = d[i + 1]]

\* workerRef.current.onmessage: the colour loop over the whole buffer
ApplyColours ==
    /\ pc = "posted"
    /\ painted' = [p \in DOMAIN computed |-> PaintPixel(data, 4 * p)]
    /\ pc' = "painted"
    /\ UNCHANGED <<sessionVars, job, px, py, data, sample, computed, colour>>

NextRender ==
    \/ WorkerSample
    \/ WorkerPost
    \/ ApplyColours

SpecRender == InitRender /\ [][NextRender]_vars

\* The messages the block fill is checked on: every buffer of up to
\* MaxFillWidth by MaxFillHeight pixels under the strides up to MaxStride
\* (the session sends quality and 2 * quality), over a view of [-4,4] x [-3,3],
\* which has samples on both sides of the circle of radius two, under a
\* budget of two iterations.
MaxFillWidth == 5

MaxFillHeight == 4

MaxStride == 3

FillWidths == 1..MaxFillWidth

FillHeights == 1..MaxFillHeight

FillStrides == 1..MaxStride

FillJobs ==
    [width : FillWidths, height : FillHeights, maxIterations : {2},
     bounds : {ViewBounds([x |-> RInt(0), y |-> RInt(0)], R(1, 2))},
     quality : FillStrides]

InitFill ==
    /\ InitSession(DEFAULT_VIEW, DEFAULT_ZOOM)
    /\ job \in FillJobs
    /\ px = 0 /\ py = 0
    /\ data = [k \in 0..(job.width * job.height * 4 - 1) |-> 0]
    /\ sample = NoClosure
    /\ computed = [p \in 0..(job.width * job.height - 1) |-> -1]
    /\ painted = <<>>
    /\ pc = "loop"
    /\ colour = NoClosure

SpecFill == InitFill /\ [][NextRender]_vars

\* The plane point handleMouseMove reports for the pointer at (mouseX,
\* mouseY) over a canvas of w x h pixels showing bounds b:
\* x = xMin + (mouseX / w) * (xMax - xMin)
\* y = yMax - (mouseY / h) * (yMax - yMin)
CursorPoint(mouseX, mouseY, w, h, b) ==
    [x |-> RAdd(b.xMin, RMul(R(mouseX, w), RSub(b.xMax, b.xMin))),
     y |-> RSub(b.yMax, RMul(R(mouseY, h), RSub(b.yMax, b.yMin)))]

\* ------------------------------------------------------------------------
\* Colour schemes (types/ColorScheme.ts)
\* ------------------------------------------------------------------------

\* Math.floor
RFloor(a) == a[1] \div a[2]

\* Math.round: the nearest integer, halves rounded up
RRound(a) == RFloor(RAdd(a, R(1, 2)))

\* a % b of JavaScript numbers: the remainder has the sign of a
RMod(a, b) ==
    LET q == RDiv(a, b)
        t == IF q[1] >= 0 THEN q[1] \div q[2] ELSE -((-q[1]) \div q[2])
    IN  RSub(a, RMul(b, RInt(t)))

BLACK == [r |-> 0, g |-> 0, b |-> 0]

\* A variant of hslToRgb that scales the red channel by 256 and drops the
\* others
hslToRgbScaled256(h, s, l) ==
    [r |-> RFloor(RMul(RDiv(s, RInt(100)), RInt(256))), g |-> 0, b |-> 0]

\* function hslToRgb(h, s, l)
hslToRgb(h, s, l) ==
    LET s1 == RDiv(s, RInt(100))
        l1 == RDiv(l, RInt(100))
        c  == RMul(RSub(RInt(1), RAbs(RSub(RMul(RInt(2), l1), RInt(1)))), s1)
        x  == RMul(c, RSub(RInt(1),
                           RAbs(RSub(RMod(RDiv(h, RInt(60)), RInt(2)),
                                     RInt(1)))))
        m  == RSub(l1, RDiv(c, RInt(2)))
        o  == RInt(0)
        rgb == IF RLt(h, RInt(60)) THEN <<c, x, o>>
               ELSE IF RLt(h, RInt(120)) THEN <<x, c, o>>
               ELSE IF RLt(h, RInt(180)) THEN <<o, c, x>>
               ELSE IF RLt(h, RInt(240)) THEN <<o, x, c>>
               ELSE IF RLt(h, RInt(300)) THEN <<x, o, c>>
               ELSE <<c, o, x>>
    IN  [r |-> RRound(RMul(RAdd(rgb[1], m), RInt(255))),
         g |-> RRound(RMul(RAdd(rgb[2], m), RInt(255))),
         b |-> RRound(RMul(RAdd(rgb[3], m), RInt(255)))]

\* The 6 base colours (3 primary + 3 secondary), baseColors[0 .. 5]
baseColors ==
    <<[r |-> 255, g |-> 0, b |-> 0], [r |-> 0, g |-> 255, b |-> 0],
      [r |-> 0, g |-> 0, b |-> 255], [r |-> 255, g |-> 255, b |-> 0],
      [r |-> 0, g |-> 255, b |-> 255], [r |-> 255, g |-> 0, b |-> 255]>>

\* [1, 0.75, 0.5, 0.25][shadeIndex]
shadeFactors == <<RInt(1), R(3, 4), R(1, 2), R(1, 4)>>

\* "Primary & Secondary": colorIndex and shadeIndex of an iteration count
PrimaryIndices(iteration, maxIter) ==
    LET normalizedIteration == R(iteration, maxIter)
        six           == RMul(normalizedIteration, RInt(6))
        shadeProgress == RMod(six, RInt(1))
    IN  [colorIndex |-> RFloor(six),
         shadeIndex |-> RFloor(RMul(shadeProgress, RInt(4)))]

\* "Primary & Secondary": the formula after the interior test
PrimaryColour(iteration, maxIter) ==
    LET idx         == PrimaryIndices(iteration, maxIter)
        colorIndex  == idx.colorIndex
        baseColor   == baseColors[(IF colorIndex < 5 THEN colorIndex ELSE 5) + 1]
        shadeFactor == shadeFactors[idx.shadeIndex + 1]
    IN  [r |-> RFloor(RMul(RInt(baseColor.r), shadeFactor)),
         g |-> RFloor(RMul(RInt(baseColor.g), shadeFactor)),
         b |-> RFloor(RMul(RInt(baseColor.b), shadeFactor))]

\* "Ocean": hue = 180 + normalizedIteration * 180
OceanColour(iteration, maxIter) ==
    hslToRgb(RAdd(RInt(180), RMul(R(iteration, maxIter), RInt(180))),
             RInt(100), RInt(50))

\* "Psychedelic": hue = (iteration * 20) % 360
PsychedelicColour(iteration) ==
    hslToRgb(RMod(RInt(iteration * 20), RInt(360)), RInt(100), RInt(50))

\* The names of the registry colorSchemes
SchemeNames == {"Primary & Secondary", "Ocean", "Psychedelic"}

\* A variant of the interior test with the comparison mistyped
InteriorTestAbove(iteration, maxIter) == iteration > maxIter

\* The test every scheme's getColor starts with
InteriorTest(iteration, maxIter) == iteration = maxIter

\* colorSchemes[..].getColor(iteration, maxIterations)
getColor(scheme, iteration, maxIter) ==
    IF InteriorTest(iteration, maxIter) THEN BLACK
    ELSE IF scheme = "Primary & Secondary"
         THEN PrimaryColour(iteration, maxIter)
    ELSE IF scheme = "Ocean" THEN OceanColour(iteration, maxIter)
    ELSE PsychedelicColour(iteration)

\* The calls of getColor explored: every scheme, iteration budgets up to
\* the slider's maximum, every iteration count up to the budget for the
\* small budgets and the counts at both ends and in the middle for the
\* large ones.
ColourBudgets == {1, 2, 6, 10, 24, 100, 255, 1000}

ColourCounts(m) == IF m <= 100 THEN 0..m ELSE {0, 1, m \div 2, m - 1, m}

ColourCalls ==
    UNION {{[scheme |-> s, iteration |-> i, maxIterations |-> m,
             rgb |-> NoClosure] : s \in SchemeNames, i \in ColourCounts(m)} :
           m \in ColourBudgets}

InitColour ==
    /\ InitSession(DEFAULT_VIEW, DEFAULT_ZOOM)
    /\ WorkerIdle
    /\ colour \in ColourCalls

\* The call returns
CallGetColor ==
    /\ colour # NoClosure
    /\ colour.rgb = NoClosure
    /\ colour' = [colour EXCEPT
                    !.rgb = getColor(colour.scheme, colour.iteration,
                                     colour.maxIterations)]
    /\ UNCHANGED <<sessionVars, workerLocals>>

NextColour == CallGetColor

SpecColour == InitColour /\ [][NextColour]_vars

\* ------------------------------------------------------------------------
\* Properties of the zoom session (Spec)
\* ------------------------------------------------------------------------

\* No animation frame is pending and every state change has been rendered
AnimationIdle == rafQueue = <<>> /\ ~RenderNeeded

\* Nothing is left to run: no frame, no render, no timer, no worker reply
Quiescent == AnimationIdle /\ timeoutCb = NoClosure /\ workerQueue = <<>>

Last(q) == q[Len(q)]

\* The plane point the worker computes for canvas pixel m when the view is
\* centred on centre at zoom level zoom
RendererPoint(centre, zoom, m) ==
    SamplePoint(m[1], m[2],
                [width |-> CanvasWidth, height |-> CanvasHeight,
                 bounds |-> ViewBounds(centre, zoom)])

\* C1: after a wheel event set the target zoom T and no further input
\* arrived, once the animation has come to rest the current zoom and the
\* published zoom level both equal T.
C1_WheelZoomReachesTarget ==
    (lastInput.type = "wheel" /\ AnimationIdle)
        => /\ currentZoomRef = lastInput.target
           /\ zoomLevel = lastInput.target

\* C2: when nothing is left to run, the result on the display was computed
\* from the bounds of the current centre and the current zoom level.
C2_QuiescentDisplayIsCurrentView ==
    (Quiescent /\ display # NoClosure)
        => display.req.bounds = ViewBounds(coordinates, zoomLevel)

\* C3: a worker result is applied to the display only if its request is
\* the most recently issued one, that is, no newer request is queued
\* behind it when it arrives.
C3_OnlyLatestResultApplied ==
    [][WorkerReply => Len(workerQueue) = 1]_vars

\* C4: the render request an animation tick posts carries the bounds of
\* the current centre and of the zoom value the same tick just produced.
C4_TickRendersTickZoom ==
    [][Tick => Last(workerQueue').bounds
                   = ViewBounds(coordinates', currentZoomRef')]_vars

\* C5: a wheel event at pixel m leaves the plane point the renderer maps to
\* m where it was: the point under the new centre and the new target zoom
\* equals the point under the old centre and the old zoom, on both axes.
C5_WheelKeepsCursorPointFixed ==
    [][\A m \in WheelPositions, d \in WheelDeltas :
          handleWheel(m, d)
              => RendererPoint(coordinates', targetZoomRef', m)
                     = RendererPoint(coordinates, currentZoomRef, m)]_vars

\* C10: after Reset View, once every pending tick, effect and timer has run
\* and no further input arrived, the view is the default view.
C10_ResetRestoresDefaultView ==
    (lastInput.type = "reset" /\ AnimationIdle /\ timeoutCb = NoClosure)
        => /\ coordinates.x = DEFAULT_VIEW.x
           /\ coordinates.y = DEFAULT_VIEW.y
           /\ zoomLevel = DEFAULT_ZOOM

\* ------------------------------------------------------------------------
\* Properties of a render (SpecRender)
\* ------------------------------------------------------------------------

\* x0 * x0 + y0 * y0 > 4 for the sample the worker evaluated last, under
\* an iteration budget of at least 1
SampleBeyondRadiusTwo ==
    /\ sample # NoClosure
    /\ job.maxIterations >= 1
    /\ RLt(RInt(4), RAdd(RMul(sample.x0, sample.x0),
                         RMul(sample.y0, sample.y0)))

\* C6: for maxIterations in 10..1000 and every pixel, the pair the result
\* handler reads from the buffer is the (iteration, maxIterations) pair the
\* escape-time loop computed,
\* and the pixel is painted black as interior exactly if the loop's
\* iteration count equals maxIterations.
C6_IterationPairSurvivesTransport ==
    (pc = "painted" /\ job.maxIterations \in 10..1000) =>
        \A p \in DOMAIN painted :
            /\ painted[p].interior <=> computed[p] = job.maxIterations
            /\ ~painted[p].interior
                   => /\ painted[p].iteration = computed[p]
                      /\ painted[p].maxIter = job.maxIterations

\* C7: the plane point the worker samples for pixel (px, py) is the point
\* the cursor read-out reports for that pixel (the mapping with the y-flip).
C7_RendererSamplesCursorPoint ==
    sample # NoClosure =>
        /\ sample.x0 = CursorPoint(sample.px, sample.py,
                                   job.width, job.height, job.bounds).x
        /\ sample.y0 = CursorPoint(sample.px, sample.py,
                                   job.width, job.height, job.bounds).y

\* C8 as stated: a sample point beyond radius 2 gets iteration count 0.
C8_BeyondRadiusTwoReturnsZero ==
    SampleBeyondRadiusTwo => sample.iteration = 0

\* C8, amended: a sample point beyond radius 2 gets iteration count 1, for
\* every maxIterations >= 1 (the first pass runs from z = 0, which is inside
\* the radius, and the guard fails before the second).
C8_BeyondRadiusTwoReturnsOne ==
    SampleBeyondRadiusTwo => sample.iteration = 1

\* A sample beyond radius 2 has been evaluated under the largest budget
C8_SampleBeyondRadiusTwoEvaluated ==
    /\ SampleBeyondRadiusTwo
    /\ job.maxIterations = 1000
    /\ computed[sample.py * job.width + sample.px] = sample.iteration

\* ------------------------------------------------------------------------
\* Properties of a drag session (SpecPan)
\* ------------------------------------------------------------------------

\* The closed box [-10, 10] x [-10, 10]
InBox(x, y) ==
    /\ RLe(RInt(-10), x) /\ RLe(x, RInt(10))
    /\ RLe(RInt(-10), y) /\ RLe(y, RInt(10))

\* C9: a drag move never leaves a centre outside [-10, 10] on either axis:
\* if the old centre minus the plane-space delta of the move (the pointer
\* delta scaled by the view's width 4 / zoom and height 3 / zoom) is inside
\* the box it becomes the centre, otherwise the centre stays as it was on
\* both axes; the move is processed in both cases.
C9_DragStaysInDomain ==
    [][\A m \in MousePositions :
          handleMouseMove(m) =>
              LET old == closure.coordinates
                  dx  == RMul(R(m[1] - closure.lastMousePos[1], CanvasWidth),
                              RDiv(RInt(4), closure.zoomLevel))
                  dy  == RMul(R(m[2] - closure.lastMousePos[2], CanvasHeight),
                              RDiv(RInt(3), closure.zoomLevel))
                  nx  == RSub(old.x, dx)
                  ny  == RSub(old.y, dy)
              IN  /\ InBox(coordinates'.x, coordinates'.y)
                  /\ IF InBox(nx, ny)
                     THEN coordinates'.x = nx /\ coordinates'.y = ny
                     ELSE coordinates' = coordinates
                  /\ lastMousePos' = m]_vars

\* A drag move that would have left the box was ignored, on a view whose
\* centre is inside the box
C9_DragRejectedAtDomainEdge ==
    /\ lastInput.type = "drag"
    /\ ~lastInput.accepted
    /\ InBox(coordinates.x, coordinates.y)
    /\ lastMousePos \in MousePositions

\* ------------------------------------------------------------------------
\* Further properties of the zoom session (Spec)
\* ------------------------------------------------------------------------

\* The bounds of a view as the specification derives them: half-width
\* 2 / zoom, half-height 1.5 / zoom, centred on the centre
DerivedBounds(centre, zoom) ==
    [xMin |-> RSub(centre.x, RDiv(RInt(2), zoom)),
     xMax |-> RAdd(centre.x, RDiv(RInt(2), zoom)),
     yMin |-> RSub(centre.y, RDiv(R(3, 2), zoom)),
     yMax |-> RAdd(centre.y, RDiv(R(3, 2), zoom))]

\* C11: the bounds the committed render sends to the renderer and the view
\* bounds it shows to the user are both the derived bounds of its centre
\* and zoom: half-width 2 / zoom, half-height 1.5 / zoom.
C11_AllBoundsDerivedAlike ==
    /\ calculateViewBounds(closure)
           = DerivedBounds(closure.coordinates, closure.zoomLevel)
    /\ viewBounds = DerivedBounds(closure.coordinates, closure.zoomLevel)


\* C13: the animation tick loop and the debounce timer do not both post
\* renders for the same viewport change, so that the requests outstanding
\* do not pile up with the input.  Stated for a session with one wheel
\* event: when the debounce timer posts the render for the view the wheel
\* event set (its centre is the wheel's coordinates object), no animation
\* tick has posted a render since that event.
C13_TickAndTimerDoNotBothPost ==
    [][(/\ TimerFires
        /\ lastInput.type = "wheel"
        /\ nInput = 1
        /\ timeoutCb.coordinates.id = 1) => nTick = 0]_vars

\* The extreme values the zoom step and animation speed sliders can set:
\* the lowest (5 %) and the highest (50 %)
SliderSettings == {R(1, 20), R(1, 2)}

\* z > 0, for a fraction z = <<numerator, denominator>>
Positive(z) == z[1] > 0 /\ z[2] > 0

\* C15: in every reachable state the published zoom level, the current
\* zoom and the target zoom are > 0, and so are the target a wheel event
\* would set and the value a tick would ease to from this state under
\* every zoom step size and animation speed the sliders allow.
C15_ZoomStaysPositive ==
    /\ Positive(zoomLevel)
    /\ Positive(currentZoomRef)
    /\ Positive(targetZoomRef)
    /\ \A s \in SliderSettings, d \in WheelDeltas :
           Positive(RMul(currentZoomRef, ZoomFactorFor(d, s)))
    /\ \A a \in SliderSettings :
           Positive(EaseStepFor(currentZoomRef, targetZoomRef, a))

\* A zoom-out has been animated: the current zoom is below the default
C15_ZoomedOut ==
    /\ nTick > 0
    /\ RLt(currentZoomRef, DEFAULT_ZOOM)
    /\ RLt(zoomLevel, DEFAULT_ZOOM)

\* ------------------------------------------------------------------------
\* Further properties of a render (SpecRender)
\* ------------------------------------------------------------------------

\* Orbit indices up to which the escape index is compared with the orbit
OrbitDepth == 50

\* z_k of the orbit z_0 = 0, z_{k+1} = z_k^2 + c for c = (x0, y0)
RECURSIVE Orbit(_, _, _)
Orbit(x0, y0, k) ==
    IF k = 0 THEN <<RInt(0), RInt(0)>>
    ELSE CHOOSE z \in {<<RAdd(RSub(RMul(p[1], p[1]), RMul(p[2], p[2])), x0),
                         RAdd(RMul(RInt(2), RMul(p[1], p[2])), y0)>> :
                           p \in {Orbit(x0, y0, k - 1)}} : TRUE

\* |z|^2 > 4
BeyondRadiusTwo(z) == RLt(RInt(4), RAdd(RMul(z[1], z[1]), RMul(z[2], z[2])))

Min(a, b) == IF a < b THEN a ELSE b

\* C14: the loop ends within maxIterations passes and returns n with
\* 0 <= n <= maxIterations, n being the least index with |z_n|^2 > 4 on the
\* orbit z_0 = 0, z_{k+1} = z_k^2 + c, or maxIterations if no index below
\* maxIterations escapes; for c = (0, 0) it returns maxIterations.
C14_EscapeIndexIsLeast ==
    sample # NoClosure =>
        LET n == sample.iteration
            z == LoopPasses([x |-> RInt(0), y |-> RInt(0), iteration |-> 0],
                            sample.x0, sample.y0,
                            job.maxIterations, job.maxIterations)
        IN  /\ ~LoopGuard(z, job.maxIterations)
            /\ n \in 0..job.maxIterations
            /\ n < job.maxIterations
                   => BeyondRadiusTwo(Orbit(sample.x0, sample.y0, n))
            /\ \A k \in 0..(Min(n, OrbitDepth + 1) - 1) :
                   ~BeyondRadiusTwo(Orbit(sample.x0, sample.y0, k))
            /\ (sample.x0 = RInt(0) /\ sample.y0 = RInt(0))
                   => n = job.maxIterations

\* The origin has been evaluated under the largest budget and never escaped
C14_OriginEvaluated ==
    /\ sample # NoClosure
    /\ sample.x0 = RInt(0) /\ sample.y0 = RInt(0)
    /\ job.maxIterations = 1000
    /\ sample.iteration = 1000

\* ------------------------------------------------------------------------
\* Further properties of a drag session (SpecPan)
\* ------------------------------------------------------------------------

\* A step posts a render request to the worker
RequestPosted == Len(workerQueue') > Len(workerQueue)

\* C12: a render request posted while a drag is in progress or while the
\* current zoom differs from the target zoom carries twice the base
\* quality as its stride; a request posted at rest carries the base quality.
C12_StrideDoubledWhileInteracting ==
    [][RequestPosted =>
          Last(workerQueue').quality
              = IF isDragging' \/ currentZoomRef' # targetZoomRef'
                THEN 2 * quality
                ELSE quality]_vars
\* ------------------------------------------------------------------------
\* Properties of the colour schemes (SpecColour)
\* ------------------------------------------------------------------------

\* C16: for every scheme of the registry and every maxIterations,
\* getColor(maxIterations, maxIterations) is exactly (0, 0, 0).
C16_InteriorIsBlack ==
    (/\ colour # NoClosure
     /\ colour.rgb # NoClosure
     /\ colour.iteration = colour.maxIterations)
        => /\ colour.rgb.r = 0
           /\ colour.rgb.g = 0
           /\ colour.rgb.b = 0

\* getColor(1000, 1000) of the Psychedelic scheme has returned
C16_InteriorCallReturned ==
    /\ colour # NoClosure
    /\ colour.rgb # NoClosure
    /\ colour.scheme = "Psychedelic"
    /\ colour.iteration = 1000
    /\ colour.maxIterations = 1000


\* Properties of the zoom animator
\* ---------------------------------------------------------------------

\* The tick that finds the zoom refs closer than 0.001
SnapTick == Tick /\ Converged(currentZoomRef, targetZoomRef)

\* C18: a tick that finds |target - current| < 0.001 sets current to target,
\* publishes target as the zoom level, posts exactly one request, of stride
\* quality, clears the frame handle and leaves no frame scheduled; a frame is
\* scheduled again only by a wheel event.
C18_SnapTickEndsAnimation ==
    [][/\ SnapTick => /\ currentZoomRef' = targetZoomRef
                      /\ targetZoomRef' = targetZoomRef
                      /\ zoomLevel' = targetZoomRef
                      /\ Len(workerQueue') = Len(workerQueue) + 1
                      /\ Last(workerQueue').quality = quality
                      /\ animationFrameRef' = NULL
                      /\ rafQueue' = <<>>
       /\ (rafQueue = <<>> /\ rafQueue' # <<>>) => lastInput'.type = "wheel"
                                                   /\ nInput' = nInput + 1]_vars

\* A wheel event's animation has eased at least once and then snapped.
C18_AnimationSnapped ==
    /\ lastInput.type = "wheel"
    /\ nTick >= 1
    /\ rafQueue = <<>>
    /\ animationFrameRef = NULL
    /\ currentZoomRef = targetZoomRef
    /\ zoomLevel = targetZoomRef
    /\ workerQueue # <<>>
    /\ Last(workerQueue).quality = quality

\* The tick that finds the zoom refs at least 0.001 apart
EaseTick == Tick /\ ~Converged(currentZoomRef, targetZoomRef)

\* Speeds of the interval (0,1]: the slider's extremes, and beyond them
UnitSpeeds == {R(1, 20), R(1, 2), R(3, 4), RInt(1)}

\* The distance of a zoom value from the target
Distance(cur, tgt) == RAbs(RSub(tgt, cur))

\* The sign of a rational
Sign(a) == IF a[1] > 0 THEN 1 ELSE IF a[1] < 0 THEN -1 ELSE 0

\* nxt lies between cur and tgt (tgt included): not past the target
NotPast(cur, nxt, tgt) ==
    /\ Sign(RSub(tgt, nxt)) \in {0, Sign(RSub(tgt, cur))}
    /\ Sign(RSub(nxt, cur)) \in {0, Sign(RSub(tgt, cur))}

\* C19: a tick taken while |target - current| >= 0.001 replaces current by
\* current + (target - current) * speed; for every speed in (0,1] that value
\* is strictly closer to the target and not past it.
C19_EaseTickApproachesTarget ==
    [][EaseTick =>
         /\ currentZoomRef' = RAdd(currentZoomRef,
                                   RMul(RSub(targetZoomRef, currentZoomRef),
                                        zoomAnimationSpeed))
         /\ targetZoomRef' = targetZoomRef
         /\ RLt(Distance(currentZoomRef', targetZoomRef),
                Distance(currentZoomRef, targetZoomRef))
         /\ NotPast(currentZoomRef, currentZoomRef', targetZoomRef)
         /\ \A a \in UnitSpeeds :
               LET nxt == EaseStepFor(currentZoomRef, targetZoomRef, a)
               IN  /\ RLt(Distance(nxt, targetZoomRef),
                          Distance(currentZoomRef, targetZoomRef))
                   /\ NotPast(currentZoomRef, nxt, targetZoomRef)]_vars

\* The first tick after a wheel-up event at the default zoom has eased
\* half way from 1.29 to 1.548.
C19_EasedHalfWay ==
    /\ nTick = 1
    /\ targetZoomRef = RMul(DEFAULT_ZOOM, ZoomFactor(-1))
    /\ currentZoomRef = R(1419, 1000)
    /\ rafQueue # <<>>

\* A wheel event handled while a frame of the animation is pending
WheelWhileAnimating == Wheel /\ animationFrameRef # NULL

\* What a wheel event during the animation leaves alone: the current zoom,
\* the published zoom, the pending frame and the worker's queue.
WheelKeepsCurrent ==
    /\ currentZoomRef' = currentZoomRef
    /\ zoomLevel' = zoomLevel
    /\ rafQueue' = rafQueue /\ rafQueue # <<>>
    /\ animationFrameRef' = animationFrameRef
    /\ workerQueue' = workerQueue
    /\ \E d \in WheelDeltas :
          targetZoomRef' = RMul(currentZoomRef, ZoomFactorFor(d, zoomStepSize))

\* A tick of the animation after a wheel event that arrived during it
TickAfterRetarget == Tick /\ lastInput.type = "wheel" /\ lastInput.animating

\* C20: a wheel event during the animation changes the target zoom (and the
\* centre) and leaves the current zoom as it is, and the ticks that follow
\* it animate toward the target that event set.
C20_WheelDuringAnimationRetargets ==
    [][/\ WheelWhileAnimating => WheelKeepsCurrent
       /\ TickAfterRetarget => targetZoomRef = lastInput.target]_vars

\* The event's own effect, taken alone
WheelDuringAnimationKeepsCurrent ==
    [][WheelWhileAnimating => WheelKeepsCurrent]_vars

\* Properties of a single drag move
\* ---------------------------------------------------------------------

\* The pointer is where the previous mouse event left it, both in the
\* latest state and in the state the handler captured: dx = dy = 0.
ZeroDeltaMove(m) ==
    /\ handleMouseMove(m)
    /\ m = lastMousePos
    /\ m = closure.lastMousePos

\* C17: a drag move with screen delta (0,0) leaves centre x, centre y and
\* the zoom level at the values they had before the move.
C17_ZeroDeltaMoveKeepsViewport ==
    [][\A m \in MousePositions :
          ZeroDeltaMove(m) => /\ coordinates'.x = coordinates.x
                              /\ coordinates'.y = coordinates.y
                              /\ zoomLevel' = zoomLevel]_vars


\* Properties of the debounce timeout
\* ---------------------------------------------------------------------

\* A commit whose view differs from the previous commit's
ViewCommitted == Render /\ View(LatestState) # View(closure)

\* C21: every commit of a changed view replaces the pending timeout by one
\* for the new view, and the render the timeout posts when it expires is
\* computed from the last view the inputs and ticks produced, after which no
\* timeout is pending.
C21_DebounceRendersLastView ==
    [][/\ ViewCommitted => timeoutCb' = View(LatestState)
       /\ TimerFires => /\ timeoutCb = View(LatestState)
                        /\ Last(workerQueue').bounds
                              = calculateViewBounds(LatestState)
                        /\ timeoutCb' = NoClosure]_vars

\* The part about the commits, taken alone
CommitRearmsTimeout ==
    [][ViewCommitted => timeoutCb' = View(LatestState)]_vars


\* Properties of the centre
\* ---------------------------------------------------------------------

\* C22: in every reachable state the centre lies in [-10, 10] on each axis.
C22_CentreStaysInDomain == InBox(coordinates.x, coordinates.y)


\* Properties of the animation frame handle
\* ---------------------------------------------------------------------

\* At most one animateZoom is scheduled, and the handle is set exactly then.
OneFrameAtMost ==
    /\ Len(rafQueue) <= 1
    /\ (animationFrameRef # NULL) <=> (rafQueue # <<>>)

\* C23: at most one animation frame is scheduled at any time and
\* animationFrameRef is non-null exactly when one is; a wheel event requests
\* a frame only when none is pending, and a tick either requests one frame
\* and keeps the handle set, or requests none and clears the handle.
C23_SingleFrameScheduled ==
    [][/\ OneFrameAtMost
       /\ OneFrameAtMost'
       /\ (Wheel /\ rafQueue' # rafQueue)
             => (rafQueue = <<>> /\ animationFrameRef = NULL)
       /\ Tick => \/ Len(rafQueue') = 1 /\ animationFrameRef' = HANDLE
                  \/ rafQueue' = <<>> /\ animationFrameRef' = NULL]_vars

\* A second wheel event has arrived while the frame of the first was
\* pending, and one frame is scheduled.
C23_WheelWhileFramePending ==
    /\ lastInput.type = "wheel"
    /\ lastInput.animating
    /\ Len(rafQueue) = 1
    /\ animationFrameRef = HANDLE


\* Properties of the block fill
\* ---------------------------------------------------------------------

\* The pixel (col, row) of a buffer of width w
PixelAt(col, row, w) == row * w + col

\* The bytes the worker is to leave in pixel (col, row): alpha 255 and the
\* channels of the escape time of the top-left sample of the pixel's block.
ExpectedByte(col, row, ch, j) ==
    LET sx == col - (col % j.quality)
        sy == row - (row % j.quality)
        c  == SamplePoint(sx, sy, j)
    IN  ChannelValue(ch, EscapeTime(c.x, c.y, j.maxIterations),
                     j.maxIterations)

\* Every pixel of the buffer has been written and holds its expected bytes.
BufferFilled ==
    /\ DOMAIN data = 0..(job.width * job.height * 4 - 1)
    /\ \A col \in 0..(job.width - 1), row \in 0..(job.height - 1) :
          /\ computed[PixelAt(col, row, job.width)] # -1
          /\ data[4 * PixelAt(col, row, job.width) + 3] = 255
          /\ \A ch \in 0..2 :
                data[4 * PixelAt(col, row, job.width) + ch]
                    = ExpectedByte(col, row, ch, job)

\* The pixels a pass of the loop body writes had not been written before,
\* and their number is that of the clipped block.
WritesFreshBlock ==
    LET written == {p \in DOMAIN computed : computed'[p] # -1}
        before  == {p \in DOMAIN computed : computed[p] # -1}
        w       == IF job.width - px < job.quality
                   THEN job.width - px ELSE job.quality
        h       == IF job.height - py < job.quality
                   THEN job.height - py ELSE job.quality
    IN  /\ before \subseteq written
        /\ Cardinality(written \ before) = w * h
        /\ \A p \in before : \A ch \in 0..3 : data'[4 * p + ch] = data[4 * p + ch]

\* The loop counters advance: the loop cannot run for ever.
LoopAdvances ==
    /\ px < job.width /\ py < job.height
    /\ \/ px' = px /\ py' > py /\ py' < job.height
       \/ px' > px /\ py' = 0

\* C24: for every width, height and stride of at least one the render loop
\* ends, and when the buffer is posted every pixel has been written exactly
\* once and carries alpha 255 and the value of the top-left sample of its
\* stride x stride block, blocks being clipped at the right and bottom edges.
C24_EveryPixelWrittenOnce ==
    [][/\ WorkerSample => (WritesFreshBlock /\ LoopAdvances)
       /\ WorkerPost => BufferFilled]_vars

\* A 5 x 4 buffer under stride 3, whose blocks are clipped at the right and
\* at the bottom, has been posted.
C24_ClippedBufferPosted ==
    /\ pc = "posted"
    /\ job.width = 5 /\ job.height = 4 /\ job.quality = 3
    /\ \E p \in DOMAIN computed : computed[p] = job.maxIterations
    /\ \E p \in DOMAIN computed : computed[p] = 1


\* Properties of the colours of escaped samples
\* ---------------------------------------------------------------------

\* A call of getColor for an escaped sample has returned.
EscapedCallReturned ==
    /\ colour # NoClosure
    /\ colour.rgb # NoClosure
    /\ colour.maxIterations >= 1
    /\ colour.iteration >= 0
    /\ colour.iteration < colour.maxIterations

\* C25: for every scheme, every maxIterations >= 1 and every iteration
\* count 0 <= i < maxIterations, getColor returns integer channels in
\* 0..255 that are not all zero; for "Primary & Secondary" the base-colour
\* index is in 0..5 and the shade index in 0..3.
C25_EscapedColourInRangeNotBlack ==
    EscapedCallReturned =>
        /\ colour.rgb.r \in 0..255
        /\ colour.rgb.g \in 0..255
        /\ colour.rgb.b \in 0..255
        /\ colour.rgb # BLACK
        /\ LET idx == PrimaryIndices(colour.iteration, colour.maxIterations)
           IN  /\ idx.colorIndex \in 0..5
               /\ idx.shadeIndex \in 0..3

\* The last escaped count of the largest budget has been coloured by
\* "Primary & Secondary": the darkest shade of the last base colour.
C25_DarkestShadeReturned ==
    /\ EscapedCallReturned
    /\ colour.scheme = "Primary & Secondary"
    /\ colour.iteration = 999
    /\ colour.maxIterations = 1000
    /\ colour.rgb = [r |-> 63, g |-> 0, b |-> 63]


\* Properties of the result handler
\* ---------------------------------------------------------------------

\* C26: the result on the display was handled by the handler of the request
\* that produced its pixels: the grid drawn over it (and the colour scheme
\* applied to it) is that of the request's own render, so the grid's bounds
\* are the bounds the pixels were computed for.
C26_ResultHandledByOwnRequest ==
    display # NoClosure
        => calculateViewBounds(display.handler) = display.req.bounds

====
